---- MODULE Spec2Model ----
(***************************************************************************)
(* Model of gps.py, the Python client interface to gpsd: the session      *)
(* object (class gps, built on gpsdata), its legacy decoder                *)
(* (__oldstyle_unpack), its structured decoder (__oldstyle_shim) and the   *)
(* dispatcher (read, next).                                                *)
(*                                                                         *)
(* Python values are records [t, v, s]: t is the Python type, v the         *)
(* number (floats in the unit the message carries them) and s the text.   *)
(* The validity bitmask is modelled as the set of the names of its bits:   *)
(* x |= b is union, x &= ~b is set difference, x & b is intersection.      *)
(***************************************************************************)
EXTENDS Integers, Sequences, FiniteSets, TLC

\* ------------------------------------------------------------ Python values

PyFloat(n)  == [t |-> "float", v |-> n, s |-> ""]
PyInt(n)  == [t |-> "int",   v |-> n, s |-> ""]
PyStr(x)  == [t |-> "str",   v |-> 0, s |-> x]
PyBool(b) == [t |-> "bool",  v |-> IF b THEN 1 ELSE 0, s |-> ""]
\* the text of a timestamp in ISO 8601 form, for the instant n
Iso(n)  == [t |-> "str",   v |-> n, s |-> "iso8601"]
None    == [t |-> "NoneType", v |-> 0, s |-> ""]
\* an attribute the object does not have (yet)
Unset   == [t |-> "unset", v |-> 0, s |-> ""]
\* float('nan'): a float, told apart from the numbers by its text
NaN     == [t |-> "float", v |-> 0, s |-> "nan"]

isnan(x) == x.t = "float" /\ x.s = "nan"

\* type(x) == type(0.0)
IsFloat(x) == x.t = "float"

\* Python truth value of x
Truthy(x) ==
    CASE x.t \in {"NoneType", "unset"} -> FALSE
      [] x.t = "str"                  -> x.s # ""
      [] x.t = "float"                -> isnan(x) \/ x.v # 0
      [] OTHER                        -> x.v # 0

\* ------------------------------------------------------------ validity bits

ONLINE_SET    == {"ONLINE_SET"}
TIME_SET      == {"TIME_SET"}
TIMERR_SET    == {"TIMERR_SET"}
LATLON_SET    == {"LATLON_SET"}
ALTITUDE_SET  == {"ALTITUDE_SET"}
SPEED_SET     == {"SPEED_SET"}
TRACK_SET     == {"TRACK_SET"}
CLIMB_SET     == {"CLIMB_SET"}
MODE_SET      == {"MODE_SET"}
DOP_SET       == {"DOP_SET"}
HERR_SET      == {"HERR_SET"}
VERR_SET      == {"VERR_SET"}
SATELLITE_SET == {"SATELLITE_SET"}
SPEEDERR_SET  == {"SPEEDERR_SET"}
CLIMBERR_SET  == {"CLIMBERR_SET"}
DEVICE_SET    == {"DEVICE_SET"}
DEVICEID_SET  == {"DEVICEID_SET"}
PACKET_SET    == {"PACKET_SET"}

MODE_NO_FIX == 1
MODE_2D     == 2
MODE_3D     == 3

\* ------------------------------------------------------------ the session

\* gpsfix.__init__
gpsfix ==
    [mode |-> PyInt(MODE_NO_FIX), time |-> NaN, ept |-> NaN,
     latitude |-> PyFloat(0), longitude |-> PyFloat(0),
     epx |-> NaN, epy |-> NaN, altitude |-> NaN, epv |-> NaN,
     track |-> NaN, speed |-> NaN, climb |-> NaN,
     epd |-> NaN, eps |-> NaN, epc |-> NaN]

\* gpsdata.satellite.__init__
satellite(PRN, elevation, azimuth, ss, used) ==
    [PRN |-> PRN, elevation |-> elevation, azimuth |-> azimuth,
     ss |-> ss, used |-> used]

\* gpsdata.__init__ and gps.__init__: the attributes of a new session.
\* path, activated, serialmode and epy are attributes the decoders create.
gpsdata ==
    [online |-> PyInt(0), valid |-> {}, fix |-> gpsfix, utc |-> PyStr(""),
     satellites_used |-> 0,
     xdop |-> PyInt(0), ydop |-> PyInt(0), vdop |-> PyInt(0),
     pdop |-> PyFloat(0), hdop |-> PyFloat(0), gdop |-> PyFloat(0),
     satellites |-> <<>>,
     gps_id |-> None, driver_mode |-> PyInt(0), baudrate |-> PyInt(0),
     cycle |-> PyInt(0), mincycle |-> PyInt(0), device |-> None,
     version |-> [obj |-> "None", m |-> <<>>, hasSats |-> FALSE, sats |-> <<>>],
     path |-> Unset, activated |-> Unset, serialmode |-> Unset, epy |-> Unset,
     newstyle |-> FALSE]

\* ------------------------------------------------------------ collaborators

\* A mapping is the sequence of its <<key, value>> pairs, no key twice.
has_key(m, k) == \E i \in 1..Len(m) : m[i][1] = k

\* m[k], for a key of m
get(m, k) == m[CHOOSE i \in 1..Len(m) : m[i][1] = k][2]

\* What the tokenizer (gpsjson.unpack) leaves in self.data: the mapping m from
\* the keys of the record to their values; the value of the key "satellites",
\* an array of mappings, is kept apart in sats (hasSats: the key is there).
Dict(m, hasSats, sats) ==
    [obj |-> "dict", m |-> m, hasSats |-> hasSats, sats |-> sats]

\* no object: None, or an attribute that does not exist
NoDict(what) == [obj |-> what, m |-> <<>>, hasSats |-> FALSE, sats |-> <<>>]

\* misc.isotime: a float becomes the text of the instant, the text of an
\* instant becomes a float, any other text fails to parse
isotime(x) ==
    CASE x.t = "float" /\ ~isnan(x)        -> [exc |-> "", value |-> Iso(x.v)]
      [] x.t = "str" /\ x.s = "iso8601"   -> [exc |-> "", value |-> PyFloat(x.v)]
      [] x.t = "str"                      -> [exc |-> "ValueError", value |-> None]
      [] OTHER                            -> [exc |-> "TypeError", value |-> None]

\* ------------------------------------------------------------ structured decoder

\* the result of running a piece of a method: the object as it is left, and
\* the exception raised ("" when the piece ran to its end)
Ran(self, exc) == [self |-> self, exc |-> exc]

\* default(k, dflt, vbit) of __oldstyle_shim: the value it returns
shim_default_value(d, k, dflt) ==
    IF ~has_key(d.m, k) THEN dflt ELSE get(d.m, k)

\* default(k, dflt, vbit) of __oldstyle_shim: what it leaves in self.valid
shim_default_valid(valid, d, k, vbit) ==
    IF ~has_key(d.m, k) THEN valid ELSE valid \cup vbit

\* self.fix.<attr> = default(key, dflt, vbit), for each <<attr, key, dflt, vbit>>
\* of rows from the i-th on, in order
RECURSIVE shim_fix_defaults(_, _, _, _)
shim_fix_defaults(self, d, rows, i) ==
    IF i > Len(rows) THEN self
    ELSE LET r == rows[i]
             next == [self EXCEPT
                        !.valid = shim_default_valid(self.valid, d, r[2], r[4]),
                        !.fix = [self.fix EXCEPT
                                   ![r[1]] = shim_default_value(d, r[2], r[3])]]
         IN  shim_fix_defaults(next, d, rows, i + 1)

\* the assignments of the TPV branch after the time, in order
TPVRows ==
    << <<"ept",       "ept",   NaN,    TIMERR_SET>>,
       <<"latitude",  "lat",   NaN,    LATLON_SET>>,
       <<"longitude", "lon",   NaN,    {}>>,
       <<"altitude",  "alt",   NaN,    ALTITUDE_SET>>,
       <<"epx",       "epx",   NaN,    HERR_SET>>,
       <<"epy",       "epy",   NaN,    HERR_SET>>,
       <<"epv",       "epv",   NaN,    VERR_SET>>,
       <<"track",     "track", NaN,    TRACK_SET>>,
       <<"speed",     "speed", NaN,    SPEED_SET>>,
       <<"climb",     "climb", NaN,    CLIMB_SET>>,
       <<"epd",       "epd",   NaN,    {}>>,
       <<"eps",       "eps",   NaN,    SPEEDERR_SET>>,
       <<"epc",       "epc",   NaN,    CLIMBERR_SET>>,
       <<"mode",      "mode",  PyInt(0), MODE_SET>> >>

\* the time of a TPV record: self.utc is already set
shim_tpv_time(self) ==
    IF self.utc = None THEN Ran(self, "")
    ELSE IF IsFloat(self.fix.time)
         THEN Ran([self EXCEPT !.fix.time = self.utc], "")
         ELSE IF self.utc.t # "str"
              THEN Ran(self, "AttributeError")      \* no encode() on a number
              ELSE LET c == isotime(self.utc)
                   IN  IF c.exc # "" THEN Ran(self, c.exc)
                       ELSE Ran([self EXCEPT !.fix.time = c.value], "")

\* the TPV branch of __oldstyle_shim
shim_TPV(self, d) ==
    LET rest(t) == IF t.exc # "" THEN t
                   ELSE Ran(shim_fix_defaults(t.self, d, TPVRows, 1), "")
    IN  rest(shim_tpv_time(
               [self EXCEPT
                  !.valid = shim_default_valid(ONLINE_SET, d, "time", TIME_SET),
                  !.utc = shim_default_value(d, "time", None)]))

\* self.path = self.data["path"], a missing key mistaken for one that has a default
shim_DEVICE_path_defaulted(self, d) ==
    Ran([self EXCEPT !.path = shim_default_value(d, "path", None)], "")

\* self.path = self.data["path"]
shim_DEVICE_path(self, d) ==
    IF ~has_key(d.m, "path") THEN Ran(self, "KeyError")
    ELSE Ran([self EXCEPT !.path = get(d.m, "path")], "")

\* the DEVICE branch of __oldstyle_shim
shim_DEVICE(self, d) ==
    LET tail(s2, driver, subtype) ==
          IF Truthy(subtype) /\ (driver.t # "str" \/ subtype.t # "str")
          THEN Ran(s2, "TypeError")        \* None += " " + subtype
          ELSE Ran([s2 EXCEPT
                      !.gps_id = IF Truthy(subtype)
                                 THEN PyStr(driver.s \o " " \o subtype.s)
                                 ELSE driver,
                      !.driver_mode = shim_default_value(d, "native", PyInt(0)),
                      !.baudrate = shim_default_value(d, "bps", PyInt(0)),
                      !.serialmode = shim_default_value(d, "serialmode", PyStr("8N1")),
                      !.cycle = shim_default_value(d, "cycle", NaN),
                      !.mincycle = shim_default_value(d, "mincycle", NaN)], "")
        ids(s1, driver) ==
          tail([s1 EXCEPT
                  !.activated = shim_default_value(d, "activated", None),
                  !.valid = shim_default_valid(
                                shim_default_valid(s1.valid, d, "driver", DEVICEID_SET),
                                d, "subtype", DEVICEID_SET),
                  !.gps_id = driver],
               driver, shim_default_value(d, "subtype", None))
        rest(p) == IF p.exc # "" THEN p
                   ELSE ids(p.self, shim_default_value(d, "driver", None))
    IN  rest(shim_DEVICE_path([self EXCEPT !.valid = ONLINE_SET \cup DEVICE_SET], d))

\* the keys __oldstyle_shim reads of each element of the satellites array
SatKeys == {"PRN", "el", "az", "ss", "used"}

\* the loop over self.data['satellites'], from the i-th element on
RECURSIVE shim_sats(_, _, _)
shim_sats(self, sats, i) ==
    IF i > Len(sats) THEN Ran(self, "")
    ELSE LET sat == sats[i]
         IN  IF \E k \in SatKeys : ~has_key(sat, k) THEN Ran(self, "KeyError")
             ELSE shim_sats(
                    [self EXCEPT !.satellites =
                        Append(self.satellites,
                               satellite(get(sat, "PRN"), get(sat, "el"),
                                         get(sat, "az"), get(sat, "ss"),
                                         get(sat, "used")))],
                    sats, i + 1)

\* the number of elements of sats, from the i-th on, whose used flag is true
RECURSIVE count_used(_, _)
count_used(sats, i) ==
    IF i > Len(sats) THEN 0
    ELSE (IF Truthy(sats[i].used) THEN 1 ELSE 0) + count_used(sats, i + 1)

\* the six figures of the SKY branch, in order
DopAttrs == <<"xdop", "ydop", "vdop", "hdop", "pdop", "gdop">>

\* setattr(self, attrp+"dop", default(attrp+"dop", NaN, DOP_SET)), from the i-th on
RECURSIVE shim_dops(_, _, _)
shim_dops(self, d, i) ==
    IF i > Len(DopAttrs) THEN self
    ELSE shim_dops(
           [self EXCEPT
              !.valid = shim_default_valid(self.valid, d, DopAttrs[i], DOP_SET),
              ![DopAttrs[i]] = shim_default_value(d, DopAttrs[i], NaN)],
           d, i + 1)

\* the SKY branch of __oldstyle_shim
shim_SKY(self, d) ==
    LET count(r) ==
          IF r.exc # "" THEN r
          ELSE Ran([r.self EXCEPT
                      !.satellites_used = count_used(r.self.satellites, 1),
                      !.valid = ONLINE_SET \cup SATELLITE_SET], "")
        sats(s1) ==
          count(IF d.hasSats
                THEN shim_sats([s1 EXCEPT !.satellites = <<>>], d.sats, 1)
                ELSE Ran(s1, ""))
    IN  sats(shim_dops(self, d, 1))

\* self.data.get("class")
class_of(d) == IF has_key(d.m, "class") THEN get(d.m, "class") ELSE None

\* gps.__oldstyle_shim, on self.data = d
oldstyle_shim(self, d) ==
    CASE class_of(d) = PyStr("VERSION") -> Ran([self EXCEPT !.version = d], "")
      [] class_of(d) = PyStr("DEVICE")  -> shim_DEVICE(self, d)
      [] class_of(d) = PyStr("TPV")     -> shim_TPV(self, d)
      [] class_of(d) = PyStr("SKY")     -> shim_SKY(self, d)
      [] OTHER                          -> Ran(self, "")

\* ------------------------------------------------------------ legacy messages

(* A legacy message is its comma-separated fields; fields[0] is head.  A    *)
(* field is [key, sep, data]: its first character ("" when the field is    *)
(* empty), its second character ("" when there is none) and the rest.      *)
(* The rest is [ws, segs]: whether it starts with white space, and its     *)
(* colon-separated segments, each the sequence of its white-space-         *)
(* separated words.                                                        *)
Data(ws, segs) == [ws |-> ws, segs |-> segs]
Field(key, sep, data) == [key |-> key, sep |-> sep, data |-> data]

\* the words Python's int() accepts: the word of n is IntWords[n + 1]
IntWords == <<"0", "1", "2", "3", "4", "5", "6", "7", "8", "9">>

\* the words float() accepts and int() does not: FloatWords[i] is FloatValues[i]
FloatWords == <<"3.0", "4.0">>
FloatValues == <<3, 4>>

is_int_word(w) == \E i \in 1..Len(IntWords) : IntWords[i] = w
is_float_word(w) == \E i \in 1..Len(FloatWords) : FloatWords[i] = w

\* the word of the number n
IntLit2Word(n) == IntWords[n + 1]

\* int(word)
py_int(w) ==
    IF is_int_word(w)
    THEN [exc |-> "", value |-> PyInt((CHOOSE i \in 1..Len(IntWords) : IntWords[i] = w) - 1)]
    ELSE [exc |-> "ValueError", value |-> None]

\* float(word)
py_float(w) ==
    CASE is_int_word(w) ->
           [exc |-> "", value |-> PyFloat((CHOOSE i \in 1..Len(IntWords) : IntWords[i] = w) - 1)]
      [] is_float_word(w) ->
           [exc |-> "", value |-> PyFloat(FloatValues[CHOOSE i \in 1..Len(FloatWords) : FloatWords[i] = w])]
      [] OTHER -> [exc |-> "ValueError", value |-> None]

\* the words of toks from the i-th on, joined by sep
RECURSIVE join(_, _, _)
join(toks, sep, i) ==
    IF i > Len(toks) THEN ""
    ELSE IF i = Len(toks) THEN toks[i]
    ELSE toks[i] \o sep \o join(toks, sep, i + 1)

\* the text of a field's data
text_of(data) ==
    (IF data.ws THEN " " ELSE "") \o
    join([i \in 1..Len(data.segs) |-> join(data.segs[i], " ", 1)], ":", 1)

\* data == "": nothing follows the '='
data_empty(data) == ~data.ws /\ data.segs = << <<>> >>

\* data[0] == "?"
data_starts_q(data) ==
    ~data.ws /\ data.segs[1] # <<>> /\ data.segs[1][1] = "?"

\* data.split(): the white-space-separated words of the whole text, a colon
\* joining the words on its two sides into one; done are the finished words,
\* cur the unfinished one (open: there is one)
RECURSIVE ws_split(_, _, _, _, _)
ws_split(segs, i, done, cur, open) ==
    IF i > Len(segs) THEN (IF open THEN Append(done, cur) ELSE done)
    ELSE LET seg  == segs[i]
             n    == Len(seg)
             cur1 == IF i > 1 THEN cur \o ":" ELSE cur
             op1  == open \/ i > 1
         IN  IF n = 0 THEN ws_split(segs, i + 1, done, cur1, op1)
             ELSE IF n = 1 THEN ws_split(segs, i + 1, done, cur1 \o seg[1], TRUE)
             ELSE ws_split(segs, i + 1,
                           Append(done, cur1 \o seg[1]) \o SubSeq(seg, 2, n - 1),
                           seg[n], TRUE)

\* field[0].upper()
upper(c) ==
    CASE c = "o" -> "O" [] c = "x" -> "X" [] c = "y" -> "Y"
      [] c = "f" -> "F" [] c = "i" -> "I" [] OTHER -> c

\* ------------------------------------------------------------ legacy decoder

\* default(i, vbit, cnv) of __oldstyle_unpack, for the word fields[i] = w:
\* the value it returns (cnv is "float" or "int")
unpack_default_value(w, cnv) ==
    LET got(c) == IF c.exc # "" THEN NaN ELSE c.value
    IN  IF w = "?" THEN NaN
        ELSE got(IF cnv = "int" THEN py_int(w) ELSE py_float(w))

\* default(i, vbit, cnv) of __oldstyle_unpack: what it leaves in self.valid
unpack_default_valid(valid, w, vbit, cnv) ==
    IF w = "?" THEN valid
    ELSE IF (IF cnv = "int" THEN py_int(w) ELSE py_float(w)).exc # "" THEN valid
    ELSE valid \cup vbit

\* the bits the fix report clears before it sets them again
OClearMask ==
    TIME_SET \cup TIMERR_SET \cup LATLON_SET \cup ALTITUDE_SET \cup
    HERR_SET \cup VERR_SET \cup TRACK_SET \cup SPEED_SET \cup
    CLIMB_SET \cup SPEEDERR_SET \cup CLIMBERR_SET \cup MODE_SET

\* the assignments of the fix report from sub-field 1 to 13, in order:
\* <<attribute of self.fix, index in fields, bit>>
ORows ==
    << <<"time",      1,  TIME_SET>>,
       <<"ept",       2,  TIMERR_SET>>,
       <<"latitude",  3,  LATLON_SET>>,
       <<"longitude", 4,  {}>>,
       <<"altitude",  5,  ALTITUDE_SET>>,
       <<"epx",       6,  HERR_SET>>,
       <<"epv",       7,  VERR_SET>>,
       <<"track",     8,  TRACK_SET>>,
       <<"speed",     9,  SPEED_SET>>,
       <<"climb",     10, CLIMB_SET>>,
       <<"epd",       11, {}>>,
       <<"eps",       12, SPEEDERR_SET>>,
       <<"epc",       13, CLIMBERR_SET>> >>

\* one row of the fix report: self.fix.<attr> = default(i, vbit).  The time
\* also rewrites self.utc when known; sub-field 6 goes to self.fix.epx and
\* to self.epy.  fields is the Python list, fields[i] its word i + 1 here.
unpack_O_row(self, fields, r) ==
    LET also(s1, v) ==
          CASE r[1] = "time" ->
                 Ran(IF isnan(v) THEN s1
                     ELSE [s1 EXCEPT !.utc = isotime(v).value], "")
            [] r[1] = "epx"  -> Ran([s1 EXCEPT !.epy = v], "")
            [] OTHER         -> Ran(s1, "")
        assign(w, v) ==
          also([self EXCEPT
                  !.valid = unpack_default_valid(self.valid, w, r[3], "float"),
                  !.fix = [self.fix EXCEPT ![r[1]] = v]], v)
    IN  IF r[2] + 1 > Len(fields) THEN Ran(self, "IndexError")
        ELSE assign(fields[r[2] + 1], unpack_default_value(fields[r[2] + 1], "float"))

\* the rows of the fix report from the i-th on, stopping at an exception
RECURSIVE unpack_O_rows(_, _, _)
unpack_O_rows(self, fields, i) ==
    IF i > Len(ORows) THEN Ran(self, "")
    ELSE LET rest(r) == IF r.exc # "" THEN r ELSE unpack_O_rows(r.self, fields, i + 1)
         IN  rest(unpack_O_row(self, fields, ORows[i]))

\* the mode of the fix report with the inference the other way round: 3D
\* when the altitude is known, 2D when it is not
unpack_O_mode_swapped(self, fields) ==
    IF Len(fields) > 14
    THEN [self EXCEPT
            !.valid = unpack_default_valid(self.valid, fields[15], MODE_SET, "int"),
            !.fix = [self.fix EXCEPT !.mode = unpack_default_value(fields[15], "int")]]
    ELSE [self EXCEPT
            !.fix = [self.fix EXCEPT
                       !.mode = IF self.valid \cap ALTITUDE_SET # {}
                                THEN PyInt(MODE_3D) ELSE PyInt(MODE_2D)],
            !.valid = self.valid \cup MODE_SET]

\* the mode of the fix report: sub-field 14, or the inference without it
unpack_O_mode(self, fields) ==
    IF Len(fields) > 14
    THEN [self EXCEPT
            !.valid = unpack_default_valid(self.valid, fields[15], MODE_SET, "int"),
            !.fix = [self.fix EXCEPT !.mode = unpack_default_value(fields[15], "int")]]
    ELSE [self EXCEPT
            !.fix = [self.fix EXCEPT
                       !.mode = IF self.valid \cap ALTITUDE_SET # {}
                                THEN PyInt(MODE_2D) ELSE PyInt(MODE_3D)],
            !.valid = self.valid \cup MODE_SET]

\* the branch cmd == 'O' of __oldstyle_unpack
unpack_O(self, data) ==
    LET mode(r, fields) ==
          IF r.exc # "" THEN r ELSE Ran(unpack_O_mode(r.self, fields), "")
        report(fields) ==
          IF Len(fields) = 0 THEN Ran(self, "IndexError")
          ELSE IF fields[1] = "?"
          THEN Ran([self EXCEPT !.fix = [self.fix EXCEPT !.mode = PyInt(MODE_NO_FIX)]], "")
          ELSE IF Len(fields) < 2
          THEN Ran([self EXCEPT !.valid = self.valid \ OClearMask], "IndexError")
          ELSE mode(unpack_O_rows([self EXCEPT !.valid = self.valid \ OClearMask,
                                               !.utc = PyStr(fields[2])],
                                  fields, 1),
                    fields)
    IN  report(ws_split(data.segs, 1, <<>>, "", FALSE))

\* the branch cmd == 'X' of __oldstyle_unpack: float(data)
unpack_X(self, data) ==
    IF Len(data.segs) = 1 /\ Len(data.segs[1]) = 1
       /\ py_float(data.segs[1][1]).exc = ""
    THEN Ran([self EXCEPT !.online = py_float(data.segs[1][1]).value,
                          !.valid = self.valid \cup ONLINE_SET], "")
    ELSE Ran(self, "ValueError")

\* map(int, words): the exception it raises, "" when every word converts
map_int_exc(words) ==
    IF \E i \in 1..Len(words) : py_int(words[i]).exc # "" THEN "ValueError" ELSE ""

\* gps.satellite(*map(int, words)) for one block of the satellite list
unpack_satellite(words) ==
    LET make(n) ==
          CASE map_int_exc(words) # "" -> [exc |-> "ValueError", value |-> None]
            [] Len(words) = 4 ->
                 [exc |-> "", value |-> satellite(n[1], n[2], n[3], n[4], None)]
            [] Len(words) = 5 ->
                 [exc |-> "", value |-> satellite(n[1], n[2], n[3], n[4], n[5])]
            [] OTHER -> [exc |-> "TypeError", value |-> None]
    IN  make([i \in 1..Len(words) |-> py_int(words[i]).value])

\* the loop building newsats, for i (Python's index) up to d1 - 1;
\* satellites is the list after pop(0)
RECURSIVE unpack_newsats(_, _, _, _)
unpack_newsats(satellites, d1, i, newsats) ==
    IF i >= d1 THEN [exc |-> "", value |-> newsats]
    ELSE IF i + 1 > Len(satellites) THEN [exc |-> "IndexError", value |-> newsats]
    ELSE LET rest(c) ==
               IF c.exc # "" THEN [exc |-> c.exc, value |-> newsats]
               ELSE unpack_newsats(satellites, d1, i + 1, Append(newsats, c.value))
         IN  rest(unpack_satellite(satellites[i + 1]))

\* the satellite list extended where the code replaces it
unpack_Y_extending(self, data) ==
    LET store(c) ==
          IF c.exc # "" THEN Ran(self, c.exc)
          ELSE Ran([self EXCEPT !.satellites = c.value,
                                !.valid = self.valid \cup SATELLITE_SET], "")
        build(satellites, d1) ==
          IF d1.exc # "" THEN Ran(self, d1.exc)
          ELSE store(unpack_newsats(satellites, d1.value.v, 0, self.satellites))
        pop(prefix) ==
          IF prefix = <<>> THEN Ran(self, "IndexError")
          ELSE build(Tail(data.segs), py_int(prefix[Len(prefix)]))
    IN  pop(data.segs[1])

\* the branch cmd == 'Y' of __oldstyle_unpack
unpack_Y(self, data) ==
    LET store(c) ==
          IF c.exc # "" THEN Ran(self, c.exc)
          ELSE Ran([self EXCEPT !.satellites = c.value,
                                !.valid = self.valid \cup SATELLITE_SET], "")
        build(satellites, d1) ==
          IF d1.exc # "" THEN Ran(self, d1.exc)
          ELSE store(unpack_newsats(satellites, d1.value.v, 0, <<>>))
        pop(prefix) ==
          IF prefix = <<>> THEN Ran(self, "IndexError")     \* pop from empty list
          ELSE build(Tail(data.segs), py_int(prefix[Len(prefix)]))
    IN  pop(data.segs[1])

\* the body of the loop over the fields of __oldstyle_unpack
unpack_field(self, field) ==
    IF field.key = "" THEN Ran(self, "")                  \* not field
    ELSE IF field.sep = "" THEN Ran(self, "IndexError")   \* field[1]
    ELSE IF field.sep # "=" THEN Ran(self, "")
    ELSE IF data_empty(field.data) THEN Ran(self, "IndexError")   \* data[0]
    ELSE IF data_starts_q(field.data) THEN Ran(self, "")
    ELSE LET branch(cmd) ==
               CASE cmd = "F" -> Ran([self EXCEPT !.device = PyStr(text_of(field.data))], "")
                 [] cmd = "I" -> Ran([self EXCEPT !.gps_id = PyStr(text_of(field.data))], "")
                 [] cmd = "O" -> unpack_O(self, field.data)
                 [] cmd = "X" -> unpack_X(self, field.data)
                 [] cmd = "Y" -> unpack_Y(self, field.data)
                 [] OTHER     -> Ran(self, "")
         IN  branch(upper(field.key))

\* the loop over fields[1:], from the i-th field on, stopping at an exception
RECURSIVE unpack_fields(_, _, _)
unpack_fields(self, fields, i) ==
    IF i > Len(fields) THEN Ran(self, "")
    ELSE LET rest(r) == IF r.exc # "" THEN r ELSE unpack_fields(r.self, fields, i + 1)
         IN  rest(unpack_field(self, fields[i]))

\* gps.__oldstyle_unpack, on a message with the given head and fields
oldstyle_unpack(self, head, fields) ==
    LET loop(s1) == IF head = "GPSD" THEN unpack_fields(s1, fields, 1) ELSE Ran(s1, "")
    IN  loop([self EXCEPT !.fix = [self.fix EXCEPT !.time = PyFloat(0)]])

\* ------------------------------------------------------------ dispatcher

(* A message as the transport leaves it in self.response: head is its      *)
(* text up to the first comma ("{" for a record that starts with a brace), *)
(* term whether it ends with "}\r\n", d what the tokenizer makes of it,    *)
(* fields its comma-separated fields after the head.                       *)
Message(head, term, d, fields) ==
    [head |-> head, term |-> term, d |-> d, fields |-> fields]

NoMessage == Message("", FALSE, NoDict("unset"), <<>>)

\* the heads that start with "GPSD"
GPSDHeads == {"GPSD", "GPSDX"}

\* the structural sniff without the test of the terminator
is_structured_unterminated(m) == m.head = "{"

\* self.response.startswith("{") and self.response.endswith("}\r\n")
is_structured(m) == m.head = "{" /\ m.term

\* self.response.startswith("GPSD")
is_legacy(m) == m.head \in GPSDHeads

\* what a call leaves to its caller: the exception it raises ("" when it
\* returns), the status it returns, and for next() the object it returns
Outcome(call, exc, value, what) ==
    [call |-> call, exc |-> exc, value |-> value, what |-> what]

\* gps.read with the legacy detection dropped once the session is newstyle
read_newstyle_only(self, data, status, m) ==
    LET shimmed(r) ==
          IF r.exc # ""
          THEN [self |-> r.self, data |-> m.d, out |-> Outcome("read", r.exc, 0, "")]
          ELSE [self |-> [r.self EXCEPT !.newstyle = TRUE,
                                        !.valid = r.self.valid \cup PACKET_SET],
                data |-> m.d, out |-> Outcome("read", "", 0, "")]
        unpacked(r) ==
          IF r.exc # ""
          THEN [self |-> r.self, data |-> data, out |-> Outcome("read", r.exc, 0, "")]
          ELSE [self |-> [r.self EXCEPT !.valid = r.self.valid \cup PACKET_SET],
                data |-> data, out |-> Outcome("read", "", 0, "")]
    IN  IF status <= 0
        THEN [self |-> self, data |-> data, out |-> Outcome("read", "", status, "")]
        ELSE IF is_structured(m) THEN shimmed(oldstyle_shim(self, m.d))
        ELSE IF is_legacy(m) /\ ~self.newstyle
        THEN unpacked(oldstyle_unpack(self, m.head, m.fields))
        ELSE [self |-> self, data |-> data, out |-> Outcome("read", "", 0, "")]

\* gps.read, after gpscommon.read returned status (> 0: with the message m in
\* self.response): the session, self.data and the outcome it leaves
read(self, data, status, m) ==
    LET shimmed(r) ==
          IF r.exc # ""
          THEN [self |-> r.self, data |-> m.d, out |-> Outcome("read", r.exc, 0, "")]
          ELSE [self |-> [r.self EXCEPT !.newstyle = TRUE,
                                        !.valid = r.self.valid \cup PACKET_SET],
                data |-> m.d, out |-> Outcome("read", "", 0, "")]
        unpacked(r) ==
          IF r.exc # ""
          THEN [self |-> r.self, data |-> data, out |-> Outcome("read", r.exc, 0, "")]
          ELSE [self |-> [r.self EXCEPT !.valid = r.self.valid \cup PACKET_SET],
                data |-> data, out |-> Outcome("read", "", 0, "")]
    IN  IF status <= 0
        THEN [self |-> self, data |-> data, out |-> Outcome("read", "", status, "")]
        ELSE IF is_structured(m) THEN shimmed(oldstyle_shim(self, m.d))
        ELSE IF is_legacy(m) THEN unpacked(oldstyle_unpack(self, m.head, m.fields))
        ELSE [self |-> self, data |-> data, out |-> Outcome("read", "", 0, "")]

\* gps.next, around the read() it makes
next(self, data, status, m) ==
    LET after(r) ==
          [r EXCEPT !.out =
             IF r.out.exc # "" THEN Outcome("next", r.out.exc, 0, "")
             ELSE IF r.out.value = -1 THEN Outcome("next", "StopIteration", 0, "")
             ELSE IF r.data.obj # "unset" THEN Outcome("next", "", 0, "data")
             ELSE Outcome("next", "", 0, "response")]
    IN  after(read(self, data, status, m))

\* ------------------------------------------------------------ bounds and inputs

\* the calls of read() and next() made in a session
MaxReads == 2
\* the most satellites a satellite list carries
MaxSats == 2

\* the statuses gpscommon.read returns: < 0 failed, 0 no complete message,
\* > 0 a message is in self.response
Statuses == {-2, -1, 0, 1}

\* --- structured records

\* the keys of a TPV record the decoder reads
TPVKeys ==
    {"time", "ept", "lat", "lon", "alt", "epx", "epy", "epv", "track", "speed",
     "climb", "epd", "eps", "epc", "mode"}

\* the values the daemon gives the time key: a float, an integer, a text
TimeValues == {PyFloat(5), PyInt(5), Iso(5)}

\* the pairs <<k, val[k]>> of the keys of keyseq, from the i-th on, that are in keys
RECURSIVE pairs(_, _, _, _)
pairs(keyseq, keys, val, i) ==
    IF i > Len(keyseq) THEN <<>>
    ELSE (IF keyseq[i] \in keys THEN << <<keyseq[i], val[i]>> >> ELSE <<>>)
         \o pairs(keyseq, keys, val, i + 1)

\* the keys of a TPV record in the order the daemon writes them
TPVKeySeq ==
    <<"time", "ept", "lat", "lon", "alt", "epx", "epy", "epv", "track", "speed",
      "climb", "epd", "eps", "epc", "mode">>

\* a TPV record with the given keys; timev is the value of its time key
TPVRecord(keys, timev) ==
    Dict(<< <<"class", PyStr("TPV")>> >> \o
         pairs(TPVKeySeq, keys,
               <<timev, PyFloat(5), PyFloat(6), PyFloat(7), PyFloat(5), PyFloat(5),
                 PyFloat(5), PyFloat(5), PyFloat(5), PyFloat(5), PyFloat(5),
                 PyFloat(5), PyFloat(5), PyFloat(5), PyInt(MODE_3D)>>, 1),
         FALSE, <<>>)

\* the key sets tried: none, all, each key alone, all but one, lat and lon
TPVKeysets ==
    {{}, TPVKeys, {"lat", "lon"}} \cup {{k} : k \in TPVKeys}
    \cup {TPVKeys \ {k} : k \in {"lat", "lon", "alt", "epx", "epy"}}

TPVRecords ==
    {TPVRecord(ks, PyFloat(5)) : ks \in TPVKeysets}
    \cup {TPVRecord({"time"}, tv) : tv \in TimeValues}
    \cup {TPVRecord(TPVKeys, Iso(5))}

\* one element of the satellites array of a SKY record
SatDict(prn, used) ==
    << <<"PRN", PyInt(prn)>>, <<"el", PyInt(2)>>, <<"az", PyInt(3)>>,
       <<"ss", PyInt(4)>>, <<"used", PyBool(used)>> >>

\* n satellites, those of odd PRN used
SkySats(n) == [i \in 1..n |-> SatDict(i, i % 2 = 1)]

\* a SKY record with the given dop keys; sats = <<>> with hasSats false: no list
SKYRecord(dops, hasSats, sats) ==
    Dict(<< <<"class", PyStr("SKY")>> >> \o
         pairs(DopAttrs, dops,
               <<PyFloat(5), PyFloat(5), PyFloat(5), PyFloat(5), PyFloat(5), PyFloat(5)>>, 1),
         hasSats, sats)

DopKeysets == {{}, {"hdop"}, {"xdop", "ydop", "vdop", "hdop", "pdop", "gdop"}}

SKYRecords ==
    {SKYRecord(ds, FALSE, <<>>) : ds \in DopKeysets}
    \cup {SKYRecord(ds, TRUE, SkySats(n)) : ds \in DopKeysets, n \in 0..MaxSats}
    \cup {SKYRecord({}, TRUE, << << <<"PRN", PyInt(1)>> >> >>)}

\* the keys of a DEVICE record in the order the daemon writes them
DEVICEKeySeq ==
    <<"path", "activated", "driver", "subtype", "native", "bps", "serialmode",
      "cycle", "mincycle">>

\* a DEVICE record with the given keys
DEVICERecord(keys) ==
    Dict(<< <<"class", PyStr("DEVICE")>> >> \o
         pairs(DEVICEKeySeq, keys,
               <<PyStr("/dev/ttyS0"), PyFloat(5), PyStr("SiRF"), PyStr("GSW3"),
                 PyInt(1), PyInt(1), PyStr("8N2"), PyInt(1), PyInt(1)>>, 1),
         FALSE, <<>>)

DEVICEKeysets ==
    {{}, {"driver"}, {"path"}, {"path", "driver"}, {"path", "driver", "subtype"},
     {"path", "subtype"},
     {"path", "activated", "driver", "subtype", "native", "bps", "serialmode",
      "cycle", "mincycle"}}

DEVICERecords == {DEVICERecord(ks) : ks \in DEVICEKeysets}

VERSIONRecord ==
    Dict(<< <<"class", PyStr("VERSION")>>, <<"release", PyStr("2.90")>> >>, FALSE, <<>>)

\* records the decoder does not know: another class, no class
OtherRecords ==
    {Dict(<< <<"class", PyStr("ATT")>>, <<"lat", PyFloat(6)>> >>, FALSE, <<>>),
     Dict(<< <<"lat", PyFloat(6)>>, <<"path", PyStr("/dev/ttyS0")>> >>, FALSE, <<>>)}

\* the message of a record, terminated as the daemon does
Structured(d) == Message("{", TRUE, d, <<>>)

\* --- legacy messages

\* a field key=payload whose payload is the given words
KV(key, words) == Field(key, "=", Data(FALSE, <<words>>))

\* a fix report with every sub-field usable: the tag, sub-fields 1 to 13, the mode
OWords ==
    <<"t", "1", "2", "3", "4", "5", "6", "7", "8", "9", "1", "2", "3", "4", "3">>

\* the first n words of a fix report, sub-field pos (Python's index) being w
OVar(n, pos, w) == [i \in 1..n |-> IF i = pos + 1 THEN w ELSE OWords[i]]

\* the fix reports that change one sub-field of the full report
OFieldsOneOff ==
    {KV("O", OVar(15, pos, "?")) : pos \in 1..14}
    \cup {KV("O", OVar(15, pos, "abc")) : pos \in 1..14}
    \cup {KV("O", OVar(15, 14, w)) : w \in {"3.0", "0", "7", "2"}}

\* the fix reports without sub-field 14, and the shorter ones
OFieldsShort ==
    {KV("O", OVar(14, 0, "t")), KV("O", OVar(14, 5, "?")), KV("O", OVar(14, 5, "abc")),
     KV("O", OVar(3, 0, "t")), KV("O", OVar(1, 0, "t"))}

\* the fix reports that say there is no fix: "O=?", "O= ?", "O=? 1"
OFieldsNoFix ==
    {KV("O", <<"?">>), Field("O", "=", Data(TRUE, << <<"?">> >>)),
     KV("O", <<"?", "1">>), Field("O", "=", Data(TRUE, << <<>> >>))}

OFull == KV("O", OWords)

OFields == {OFull, KV("o", OWords)} \cup OFieldsOneOff \cup OFieldsShort \cup OFieldsNoFix

XFields ==
    {KV("X", <<"1">>), KV("X", <<"0">>), KV("X", <<"abc">>), KV("X", <<"?">>),
     KV("X", <<>>)}

\* one block of a satellite list: PRN, elevation, azimuth, signal, used
SatBlock(prn, used) == <<IntLit2Word(prn), "2", "3", "4", IF used THEN "1" ELSE "0">>

\* "Y=t <n>:block:...:block:" with n blocks, the satellites of odd PRN used
YWellFormed(n) ==
    Field("Y", "=", Data(FALSE, << <<"t", IntLit2Word(n)>> >> \o
                                [i \in 1..n |-> SatBlock(i, i % 2 = 1)] \o << <<>> >>))

\* the field "Y=2 1" that the message "GPSD,Y=2 1,10,80,200,40,1:2,20,150,90,35,0"
\* starts with, and the fields that follow it
YCommaFields ==
    << KV("Y", <<"2", "1">>),
       Field("1", "0", Data(FALSE, << <<>> >>)),
       Field("8", "0", Data(FALSE, << <<>> >>)),
       Field("2", "0", Data(FALSE, << <<"0">> >>)),
       Field("4", "0", Data(FALSE, << <<>> >>)),
       Field("1", ":", Data(FALSE, << <<"2">> >>)),
       Field("2", "0", Data(FALSE, << <<>> >>)),
       Field("1", "5", Data(FALSE, << <<"0">> >>)),
       Field("9", "0", Data(FALSE, << <<>> >>)),
       Field("3", "5", Data(FALSE, << <<>> >>)),
       Field("0", "",  Data(FALSE, << <<>> >>)) >>

YFields ==
    {YWellFormed(n) : n \in 0..MaxSats}
    \cup {\* four integers in the block: no used flag
          Field("Y", "=", Data(FALSE, << <<"t", "1">>, <<"1", "2", "3", "4">>, <<>> >>)),
          \* more satellites announced than blocks
          Field("Y", "=", Data(FALSE, << <<"t", "2">>, SatBlock(1, TRUE), <<>> >>)),
          Field("Y", "=", Data(FALSE, << <<"t", "2">>, SatBlock(1, TRUE)>>)),
          \* a block that is not numbers, a count that is not a number
          Field("Y", "=", Data(FALSE, << <<"t", "1">>, <<"1", "2", "3", "abc", "1">>, <<>> >>)),
          Field("Y", "=", Data(FALSE, << <<"t", "abc">>, <<>> >>)),
          Field("Y", "=", Data(FALSE, << <<>>, SatBlock(1, TRUE)>>)),
          YCommaFields[1]}

\* fields without the shape key=value, and keys the decoder does not know
OddFields ==
    {Field("", "", Data(FALSE, << <<>> >>)),         \* ""
     Field("X", "", Data(FALSE, << <<>> >>)),        \* "X"
     Field("X", "Y", Data(FALSE, << <<"1">> >>)),    \* "XY1"
     KV("Z", <<"1">>)}

IdFields == {KV("F", <<"/dev/ttyS0">>), KV("I", <<"SiRF">>), KV("F", <<"?">>)}

\* a legacy message with the given fields
Legacy(fields) == Message("GPSD", FALSE, NoDict("unset"), fields)

\* --- the messages of each specification

\* the set S with its elements listed: a union is listed once, here, and not
\* by each reader of the set
Listed(S) == {x : x \in S}

\* messages that are neither structured nor legacy: NMEA noise, a record
\* without its terminator, a legacy message after white space
NoiseMessages ==
    {Message("$GPGGA", FALSE, NoDict("unset"), <<KV("O", OWords)>>),
     Message("{", FALSE, TPVRecord(TPVKeys, PyFloat(5)), <<>>),
     Message(" GPSD", FALSE, NoDict("unset"), <<KV("O", OWords)>>),
     Message("", TRUE, NoDict("unset"), <<>>)}

\* a few messages of every kind
CoreMessages ==
    Listed(
    {Legacy(<<f>>) : f \in {OFull, KV("O", OVar(14, 0, "t")), KV("O", <<"?">>),
                            YWellFormed(MaxSats), KV("X", <<"1">>),
                            KV("F", <<"/dev/ttyS0">>)}}
    \cup {Legacy(<<>>), Message("GPSDX", FALSE, NoDict("unset"), <<OFull>>)}
    \cup {Structured(d) : d \in
            {TPVRecord(TPVKeys, PyFloat(5)), TPVRecord({"lat", "lon"}, PyFloat(5)),
             TPVRecord({"time"}, Iso(5)),
             SKYRecord({"hdop"}, TRUE, SkySats(MaxSats)), SKYRecord({}, FALSE, <<>>),
             DEVICERecord({}), DEVICERecord({"driver"}), DEVICERecord({"path"}),
             DEVICERecord({"path", "driver", "subtype"}),
             VERSIONRecord}
            \cup OtherRecords}
    \cup NoiseMessages)

\* every legacy field alone, a few messages of two fields, and a few records
\* that leave something to keep
LegacyMessages ==
    Listed(
    {Legacy(<<f>>) : f \in OFields \cup XFields \cup YFields \cup OddFields \cup IdFields}
    \cup {Legacy(YCommaFields)}
    \cup {Legacy(fs) : fs \in
            {<<YWellFormed(1), KV("X", <<"abc">>)>>, <<KV("X", <<"abc">>), YWellFormed(1)>>,
             <<KV("X", <<"1">>), YWellFormed(1)>>, <<YWellFormed(MaxSats), YWellFormed(1)>>,
             <<YWellFormed(1), OFull>>, <<OFull, KV("X", <<"1">>)>>,
             <<Field("", "", Data(FALSE, << <<>> >>)), OFull>>,
             <<Field("X", "", Data(FALSE, << <<>> >>)), OFull>>}}
    \cup {Structured(d) : d \in
            {TPVRecord(TPVKeys, PyFloat(5)), SKYRecord({}, TRUE, SkySats(MaxSats)),
             DEVICERecord({"path"})}})

\* every structured record, and a few legacy messages
StructuredMessages ==
    Listed(
    {Structured(d) : d \in TPVRecords \cup SKYRecords \cup DEVICERecords
                           \cup {VERSIONRecord} \cup OtherRecords}
    \cup {Legacy(<<f>>) : f \in {OFull, YWellFormed(MaxSats), KV("X", <<"1">>)}})

\* ------------------------------------------------------------ the state machine

VARIABLES
    self,       \* the attributes of the session object
    data,       \* self.data, the record last tokenized
    response,   \* self.response, the message last received
    status,     \* what gpscommon.read returned to the last call
    out,        \* what the last call of read() or next() left to its caller
    nreads      \* the calls made

vars == <<self, data, response, status, out, nreads>>

Init ==
    /\ self = gpsdata
    /\ data = NoDict("unset")
    /\ response = NoMessage
    /\ status = 0
    /\ out = Outcome("init", "", 0, "")
    /\ nreads = 0

\* the effect of a call whose result is r, the transport having returned st
\* with the message m
Effect(r, st, m) ==
    /\ self' = r.self
    /\ data' = r.data
    /\ out' = r.out
    /\ status' = st
    /\ response' = IF st > 0 THEN m ELSE response
    /\ nreads' = nreads + 1

\* a call of session.read(), the daemon sending one of msgs
ReadCall(msgs) ==
    /\ nreads < MaxReads
    /\ \E st \in Statuses :
         \E m \in IF st > 0 THEN msgs ELSE {response} :
           Effect(read(self, data, st, m), st, m)

\* a call of session.next(), the daemon sending one of msgs
NextCall(msgs) ==
    /\ nreads < MaxReads
    /\ \E st \in Statuses :
         \E m \in IF st > 0 THEN msgs ELSE {response} :
           Effect(next(self, data, st, m), st, m)

Read == ReadCall(CoreMessages)
Iterate == NextCall(CoreMessages)
Next == Read \/ Iterate
Spec == Init /\ [][Next]_vars

\* the session of a daemon that speaks the legacy protocol
ReadLegacy == ReadCall(LegacyMessages)
SpecLegacy == Init /\ [][ReadLegacy]_vars

\* the session of a daemon that speaks the structured protocol
ReadStructured == ReadCall(StructuredMessages)
SpecStructured == Init /\ [][ReadStructured]_vars

\* ------------------------------------------------------------ what the claims speak of

\* the last call received the message it decoded or skipped
Received == status > 0 /\ out.call \in {"read", "next"}

\* the last call received a structured record of the given class
ReceivedRecord(class) ==
    Received /\ is_structured(response) /\ class_of(response.d) = PyStr(class)

\* the validity bits of the groups a record of the given class derives again
TouchedBits(class) ==
    CASE class = PyStr("TPV")    -> ONLINE_SET \cup OClearMask \cup PACKET_SET
      [] class = PyStr("SKY")    -> ONLINE_SET \cup DOP_SET \cup SATELLITE_SET \cup PACKET_SET
      [] class = PyStr("DEVICE") -> ONLINE_SET \cup DEVICE_SET \cup DEVICEID_SET \cup PACKET_SET
      [] OTHER                   -> {}

\* C1: when a legacy message and then a TPV, SKY or DEVICE record are decoded,
\* every validity bit the legacy message left, of a group the record does not
\* derive again, is still set after the record.
C1_CrossFormatKeepsBits ==
    [][(/\ status > 0 /\ is_legacy(response) /\ out.exc = ""
        /\ nreads' = nreads + 1
        /\ status' > 0 /\ is_structured(response') /\ out'.exc = ""
        /\ class_of(response'.d) \in {PyStr("TPV"), PyStr("SKY"), PyStr("DEVICE")})
       => (self.valid \ TouchedBits(class_of(response'.d))) \subseteq self'.valid]_vars

\* the part of the session the consumer reads as the GPS State
GPSState(s) ==
    <<s.fix, s.utc, s.satellites, s.satellites_used, s.valid, s.online,
      s.xdop, s.ydop, s.vdop, s.hdop, s.pdop, s.gdop,
      s.gps_id, s.device, s.version>>

\* C2: a structured record delivered a second time in a row leaves the GPS
\* State as the first delivery left it.
C2_Idempotent ==
    [][(/\ status > 0 /\ is_structured(response)
        /\ class_of(response.d) \in
              {PyStr("VERSION"), PyStr("DEVICE"), PyStr("TPV"), PyStr("SKY")}
        /\ nreads' = nreads + 1
        /\ status' > 0 /\ response' = response)
       => GPSState(self') = GPSState(self)]_vars

\* the last call decoded a legacy message whose one field is a fix report
ReceivedFixReport(m) ==
    /\ m.head = "GPSD" /\ Len(m.fields) = 1
    /\ upper(m.fields[1].key) = "O" /\ m.fields[1].sep = "="

\* the words of the fix report of such a message: the tag, then the sub-fields
ReportWords(m) == ws_split(m.fields[1].data.segs, 1, <<>>, "", FALSE)

\* the fields of the Fix Snapshot that sub-field i of a fix report stands for
SubfieldAttrs(i) ==
    CASE i = 6  -> {"epx", "epy"}
      [] i = 14 -> {"mode"}
      [] OTHER  -> {ORows[j][1] : j \in {k \in 1..Len(ORows) : ORows[k][2] = i}}

\* the validity bit of the group of sub-field i (longitude shares the bit of
\* latitude; the track error has none)
SubfieldBit(i) ==
    CASE i = 4  -> LATLON_SET
      [] i = 14 -> MODE_SET
      [] OTHER  -> UNION {ORows[j][3] : j \in {k \in 1..Len(ORows) : ORows[k][2] = i}}

\* C3: after a legacy fix report is decoded, each of its sub-fields 1 to 14
\* that is "?" has left not-a-number in its field of the Fix Snapshot and its
\* group's validity bit out of valid.
C3_UnknownSubfield ==
    (Received /\ ReceivedFixReport(response) /\ out.exc = ""
     /\ ~data_starts_q(response.fields[1].data))
    => \A i \in 1..14 :
         (i + 1 <= Len(ReportWords(response)) /\ ReportWords(response)[i + 1] = "?")
         => /\ \A a \in SubfieldAttrs(i) : isnan(self.fix[a])
            /\ SubfieldBit(i) \cap self.valid = {}

\* a word the fix report's default rule takes as a value
Usable(w, cnv) == w # "?" /\ (IF cnv = "int" THEN py_int(w) ELSE py_float(w)).exc = ""

\* the fix report of message m supplies a value for the group of bit b: one
\* of the group's sub-fields is usable (the mode also when the report is of
\* the older kind that has no sub-field 14 and lets the mode be inferred)
Supplies(m, b) ==
    LET w == ReportWords(m)
    IN  /\ ~data_starts_q(m.fields[1].data)
        /\ Len(w) >= 1 /\ w[1] # "?"
        /\ \/ \E i \in 1..13 : /\ SubfieldBit(i) = b /\ i + 1 <= Len(w)
                               /\ Usable(w[i + 1], "float")
           \/ b = MODE_SET /\ (Len(w) <= 14 \/ Usable(w[15], "int"))

\* the bits of the groups of the Fix Snapshot
FixGroupBits == {{b} : b \in OClearMask}

\* C4: of two legacy fix reports decoded one after the other, the second
\* leaves clear the bit of every group it supplies no usable value for,
\* whatever the first supplied.
C4_NoBitLeakage ==
    [][(/\ status > 0 /\ ReceivedFixReport(response) /\ out.exc = ""
        /\ nreads' = nreads + 1
        /\ status' > 0 /\ ReceivedFixReport(response') /\ out'.exc = "")
       => \A b \in FixGroupBits :
            (b \subseteq self.valid /\ ~Supplies(response', b))
            => b \cap self'.valid = {}]_vars

\* the keys of a TPV record that follow the default rule, with the field of
\* the Fix Snapshot and the bit of the group of each
C5Keys == {"lat", "lon", "alt", "ept", "epx", "epy", "epv", "epd", "eps", "epc"}
TPVAttr(k) == TPVRows[CHOOSE j \in 1..Len(TPVRows) : TPVRows[j][2] = k][1]
TPVGroupBit(k) ==
    CASE k \in {"lat", "lon"} -> LATLON_SET
      [] OTHER -> TPVRows[CHOOSE j \in 1..Len(TPVRows) : TPVRows[j][2] = k][4]

\* C5: after a TPV record is decoded, each of the keys lat, lon, alt, ept,
\* epx, epy, epv, epd, eps, epc that is present has its value in the Fix
\* Snapshot and its group's bit set; each that is absent has left
\* not-a-number, and its group's bit clear when no key of the group is present.
C5_TPVDefaultRule ==
    (ReceivedRecord("TPV") /\ out.exc = "")
    => \A k \in C5Keys :
         IF has_key(response.d.m, k)
         THEN /\ self.fix[TPVAttr(k)] = get(response.d.m, k)
              /\ TPVGroupBit(k) \subseteq self.valid
         ELSE /\ isnan(self.fix[TPVAttr(k)])
              /\ (\A j \in C5Keys : TPVGroupBit(j) = TPVGroupBit(k)
                                    => ~has_key(response.d.m, j))
                 => TPVGroupBit(k) \cap self.valid = {}

\* the call being made receives a DEVICE record that has no path key
DeviceWithoutPath(m) ==
    /\ is_structured(m) /\ class_of(m.d) = PyStr("DEVICE") /\ ~has_key(m.d.m, "path")

\* C6: reading a DEVICE record without a path key ends, for read() and for
\* next(), in a KeyError raised to the caller (neither the status 0 of a
\* decode, nor the status -1 or StopIteration of the end of the stream); no
\* path is set and the packet bit is not.
C6_MissingPathRejected ==
    [][(nreads' = nreads + 1 /\ status' > 0 /\ DeviceWithoutPath(response'))
       => /\ out'.exc = "KeyError"
          /\ self'.path = self.path
          /\ PACKET_SET \cap self'.valid = {}]_vars

\* C6: next() has raised the KeyError of a DEVICE record without a path, in a
\* session that had the path of an earlier DEVICE record.
C6_Witness ==
    /\ Received /\ DeviceWithoutPath(response)
    /\ out.call = "next" /\ out.exc = "KeyError"
    /\ self.path = PyStr("/dev/ttyS0")

\* the payload of a Y field as the decoder takes it: words ending with the
\* count n, then at least n colon-separated blocks, the first n of them four
\* or five integers
WellFormedY(payload) ==
    LET prefix == payload.segs[1]
    IN  /\ prefix # <<>> /\ prefix[1] # "?"
        /\ is_int_word(prefix[Len(prefix)])
        /\ LET n == py_int(prefix[Len(prefix)]).value.v
           IN  /\ Len(payload.segs) - 1 >= n
               /\ \A i \in 1..n :
                    /\ Len(payload.segs[i + 1]) \in {4, 5}
                    /\ \A j \in 1..Len(payload.segs[i + 1]) : is_int_word(payload.segs[i + 1][j])

\* the Satellite Records such a payload describes, in the order of the message
DescribedSatellites(payload) ==
    LET prefix == payload.segs[1]
        n == py_int(prefix[Len(prefix)]).value.v
    IN  [i \in 1..n |->
           LET b == payload.segs[i + 1]
           IN  satellite(py_int(b[1]).value, py_int(b[2]).value, py_int(b[3]).value,
                         py_int(b[4]).value,
                         IF Len(b) = 5 THEN py_int(b[5]).value ELSE None)]

\* field j of message m is a Y field
IsYField(m, j) == upper(m.fields[j].key) = "Y" /\ m.fields[j].sep = "="

\* the last call received a legacy message whose last Y field is field j
ReceivedSatelliteList(j) ==
    /\ Received /\ response.head = "GPSD"
    /\ j \in 1..Len(response.fields) /\ IsYField(response, j)
    /\ \A k \in (j + 1)..Len(response.fields) : ~IsYField(response, k)

C8_SatellitesUsedDerived ==
    self.satellites_used = count_used(self.satellites, 1)

\* C9: when the transport reports no data or a closed connection (a status
\* <= 0), read() returns a status that is not the 0 of a decoded message and
\* next() raises StopIteration.
C9_NoDataIsEndOfStream ==
    /\ (status <= 0 /\ out.call = "read") => (out.exc = "" /\ out.value # 0)
    /\ (status <= 0 /\ out.call = "next") => out.exc = "StopIteration"

\* the message m has neither the shape of a structured record (a brace first
\* and "}\r\n" last) nor the sentinel of a legacy message first
Unrecognized(m) == ~(m.head = "{" /\ m.term) /\ m.head \notin GPSDHeads

\* C10: a message that is neither structured nor legacy leaves the session as
\* it was (valid, the Fix Snapshot, the satellites, the device fields, the
\* newstyle flag) and the call ends without an error, read() returning 0.
C10_UnrecognizedSkipped ==
    [][(/\ nreads' = nreads + 1 /\ status' > 0
        /\ Unrecognized(response'))
       => /\ self' = self
          /\ out'.exc = ""
          /\ out'.call = "read" => out'.value = 0]_vars

\* C10: a record without its terminator was skipped by a session that had
\* decoded a packet before.
C10_Witness ==
    /\ Received /\ response.head = "{" /\ ~response.term
    /\ out.exc = "" /\ PACKET_SET \subseteq self.valid

\* the last call of read() or next() ran to its end without an exception
Completed == out.call \in {"read", "next"} /\ out.exc = ""

\* C11: after every completed read, fix.mode is MODE_NO_FIX, MODE_2D or
\* MODE_3D: never 0, never another value.
C11_ModeIsEnum ==
    Completed => self.fix.mode \in {PyInt(MODE_NO_FIX), PyInt(MODE_2D), PyInt(MODE_3D)}

\* a numeric word that is neither "?" nor a number of the kind cnv reads
NonNumeric(w, cnv) ==
    w # "?" /\ (IF cnv = "int" THEN py_int(w) ELSE py_float(w)).exc # ""

\* the words of the payload of field f
FieldWords(f) == ws_split(f.data.segs, 1, <<>>, "", FALSE)

\* field f is key=payload with a payload that does not start with "?", and
\* what the key asks for is all there: the one word of an X field, the 14 or
\* 15 words of a fix report, the count of a satellite list and as many
\* blocks of four or five words as it announces
Shaped(f) ==
    /\ f.key # "" /\ f.sep = "=" /\ ~data_empty(f.data) /\ ~data_starts_q(f.data)
    /\ CASE upper(f.key) = "X" -> Len(f.data.segs) = 1 /\ Len(f.data.segs[1]) = 1
         [] upper(f.key) = "O" -> Len(FieldWords(f)) \in {14, 15}
         [] upper(f.key) = "Y" ->
              /\ f.data.segs[1] # <<>>
              /\ is_int_word(f.data.segs[1][Len(f.data.segs[1])])
                 => LET n == py_int(f.data.segs[1][Len(f.data.segs[1])]).value.v
                    IN  /\ Len(f.data.segs) - 1 >= n
                        /\ \A i \in 1..n : Len(f.data.segs[i + 1]) \in {4, 5}
         [] OTHER -> TRUE

\* the sub-fields of the fix report f that fail to parse as numbers
BadSubfields(f) ==
    {i \in 1..14 : /\ i + 1 <= Len(FieldWords(f))
                   /\ NonNumeric(FieldWords(f)[i + 1], IF i = 14 THEN "int" ELSE "float")}

\* a value of the shaped field f fails numeric parsing
ParseFailure(f) ==
    CASE upper(f.key) = "X" -> NonNumeric(f.data.segs[1][1], "float")
      [] upper(f.key) = "O" -> BadSubfields(f) # {}
      [] upper(f.key) = "Y" ->
           \/ ~is_int_word(f.data.segs[1][Len(f.data.segs[1])])
           \/ \E i \in 1..py_int(f.data.segs[1][Len(f.data.segs[1])]).value.v :
                \E j \in 1..Len(f.data.segs[i + 1]) : ~is_int_word(f.data.segs[i + 1][j])
      [] OTHER -> FALSE

\* the last call received a legacy message of shaped fields, no key twice,
\* one of them at least with a value that fails numeric parsing
ReceivedParseFailure ==
    /\ Received /\ response.head = "GPSD"
    /\ \A j \in 1..Len(response.fields) : Shaped(response.fields[j])
    /\ \A j, k \in 1..Len(response.fields) :
         j # k => upper(response.fields[j].key) # upper(response.fields[k].key)
    /\ \E j \in 1..Len(response.fields) : ParseFailure(response.fields[j])

\* C12: a legacy message with a value that fails numeric parsing is decoded
\* to its end: read() returns normally, each sub-field of a fix report that
\* fails leaves not-a-number, and the fields that parse are applied (the
\* online flag of an X field, the satellites of a Y field, the usable
\* sub-fields of a fix report).
C12_ParseFailureDegrades ==
    ReceivedParseFailure
    => /\ out.exc = ""
       /\ \A j \in 1..Len(response.fields) :
            LET f == response.fields[j]
            IN  /\ upper(f.key) = "O"
                   => /\ \A i \in BadSubfields(f) : \A a \in SubfieldAttrs(i) \ {"epy"} :
                           isnan(self.fix[a])
                      /\ \A i \in (1..13) \ BadSubfields(f) :
                           FieldWords(f)[i + 1] # "?"
                           => \A a \in SubfieldAttrs(i) \ {"epy"} :
                                self.fix[a] = py_float(FieldWords(f)[i + 1]).value
                /\ (upper(f.key) = "X" /\ ~ParseFailure(f))
                   => /\ self.online = py_float(f.data.segs[1][1]).value
                      /\ ONLINE_SET \subseteq self.valid
                /\ (upper(f.key) = "Y" /\ ~ParseFailure(f))
                   => /\ self.satellites = DescribedSatellites(f.data)
                      /\ SATELLITE_SET \subseteq self.valid

\* C13: after a SKY record is decoded, each dilution-of-precision key it has
\* is stored in the session, and DOP_SET is in valid when it has one of
\* them at least and absent when it has none.
C13_DopBit ==
    (ReceivedRecord("SKY") /\ out.exc = "")
    => /\ \A i \in 1..Len(DopAttrs) :
            has_key(response.d.m, DopAttrs[i])
            => self[DopAttrs[i]] = get(response.d.m, DopAttrs[i])
       /\ (\E i \in 1..Len(DopAttrs) : has_key(response.d.m, DopAttrs[i]))
          <=> DOP_SET \subseteq self.valid

\* the message m has the shape of a structured record
BraceRecord(m) == m.head = "{" /\ m.term

\* C14: newstyle is false in a new session and turns true only in a call
\* that receives a structured message, and does so whenever that message is
\* decoded to its end; once true it stays true; and a legacy message
\* received by a newstyle session is decoded by the legacy decoder, its
\* fields applied and PACKET_SET set.
C14_StickyNewstyle ==
    [][/\ nreads = 0 => ~self.newstyle
       /\ (~self.newstyle /\ self'.newstyle) => (status' > 0 /\ BraceRecord(response'))
       /\ (status' > 0 /\ BraceRecord(response') /\ out'.exc = "") => self'.newstyle
       /\ self.newstyle => self'.newstyle
       /\ (self.newstyle /\ status' > 0 /\ ~BraceRecord(response')
           /\ response'.head \in GPSDHeads)
          => /\ self'.newstyle
             /\ LET r == oldstyle_unpack(self, response'.head, response'.fields)
                IN  /\ out'.exc = r.exc
                    /\ r.exc = "" => self' = [r.self EXCEPT !.valid = r.self.valid \cup PACKET_SET]
                    /\ r.exc # "" => self' = r.self]_vars

\* C14: a newstyle session has decoded the legacy message "GPSD,X=1": the
\* online flag is set, with ONLINE_SET and PACKET_SET.
C14_Witness ==
    /\ Received /\ response = Legacy(<<KV("X", <<"1">>)>>) /\ out.exc = ""
    /\ self.newstyle
    /\ self.online = PyFloat(1) /\ (ONLINE_SET \cup PACKET_SET) \subseteq self.valid

\* C15: a TPV record with a time key is decoded without an error, and
\* fix.time is then the number of the key when it is a number, and the epoch
\* seconds converted from it when it is an ISO 8601 text, whatever fix.time
\* held before.
C15_TPVTime ==
    (ReceivedRecord("TPV") /\ has_key(response.d.m, "time"))
    => /\ out.exc = ""
       /\ LET tv == get(response.d.m, "time")
          IN  IF tv.t \in {"float", "int"}
              THEN self.fix.time = tv
              ELSE /\ IsFloat(self.fix.time)
                   /\ self.fix.time = isotime(tv).value

\* the fix report of message m has "?" as its first sub-field
NoFixReport(m) ==
    /\ ReceivedFixReport(m)
    /\ Len(ReportWords(m)) >= 1 /\ ReportWords(m)[1] = "?"

\* C16: a legacy message whose fix report starts with "?" is decoded without
\* an error and leaves fix.mode = MODE_NO_FIX, whatever the mode was, and
\* every other field of the Fix Snapshot that a sub-field stands for as it was.
C16_NoFixReport ==
    [][(nreads' = nreads + 1 /\ status' > 0 /\ NoFixReport(response'))
       => /\ out'.exc = ""
          /\ self'.fix.mode = PyInt(MODE_NO_FIX)
          /\ \A a \in (DOMAIN self.fix) \ {"mode", "time"} : self'.fix[a] = self.fix[a]]_vars

\* C17: a legacy fix report without sub-field 14 (and not one that starts
\* with "?"), once decoded to its end, leaves MODE_SET set and fix.mode =
\* MODE_2D when its altitude sub-field is usable, MODE_3D when it is not,
\* whatever ALTITUDE_SET was before.
C17_ModeInferred ==
    (/\ Received /\ ReceivedFixReport(response) /\ ~NoFixReport(response)
     /\ out.exc = "" /\ Len(ReportWords(response)) < 15)
    => /\ MODE_SET \subseteq self.valid
       /\ self.fix.mode = IF Usable(ReportWords(response)[6], "float")
                          THEN PyInt(MODE_2D) ELSE PyInt(MODE_3D)
       /\ Usable(ReportWords(response)[6], "float") <=> ALTITUDE_SET \subseteq self.valid

\* C17: the second message of a session was a fix report without sub-field 14
\* whose altitude is "?", and the mode inferred is MODE_3D.
C17_Witness ==
    /\ Received /\ nreads = 2 /\ out.exc = ""
    /\ response = Legacy(<<KV("O", OVar(14, 5, "?"))>>)
    /\ self.fix.mode = PyInt(MODE_3D) /\ MODE_SET \subseteq self.valid

\* C18: after a legacy fix report is decoded, a usable sub-field 6 is the
\* value of fix.epx and of fix.epy, with HERR_SET set; a sub-field 6 that is
\* "?" leaves both not-a-number.
C18_HorizontalErrorCopied ==
    (/\ Received /\ ReceivedFixReport(response) /\ ~NoFixReport(response)
     /\ out.exc = "" /\ Len(ReportWords(response)) >= 7)
    => /\ Usable(ReportWords(response)[7], "float")
          => /\ self.fix.epx = py_float(ReportWords(response)[7]).value
             /\ self.fix.epy = py_float(ReportWords(response)[7]).value
             /\ HERR_SET \subseteq self.valid
       /\ ReportWords(response)[7] = "?"
          => (isnan(self.fix.epx) /\ isnan(self.fix.epy))

\* field f has the shape key=value: a key, "=" after it, and a payload
KeyValue(f) == f.key # "" /\ f.sep = "=" /\ ~data_empty(f.data)

\* C19: a legacy message with fields that lack the shape key=value is
\* decoded as the same message without those fields: they raise no error and
\* change nothing, and the fields that remain are decoded.
C19_ShapelessSkipped ==
    [][(/\ nreads' = nreads + 1 /\ status' > 0 /\ response'.head = "GPSD"
        /\ \E j \in 1..Len(response'.fields) : ~KeyValue(response'.fields[j]))
       => LET r == read(self, data, status',
                        Legacy(SelectSeq(response'.fields, KeyValue)))
          IN  /\ out'.exc = r.out.exc
              /\ self' = r.self]_vars

\* C20: a legacy message without a fix report leaves the Fix Snapshot,
\* fix.time included, and the validity bits of the fix groups as they were.
C20_FixKeptWithoutReport ==
    [][(/\ nreads' = nreads + 1 /\ status' > 0 /\ response'.head \in GPSDHeads
        /\ \A j \in 1..Len(response'.fields) : upper(response'.fields[j].key) # "O")
       => /\ self'.fix = self.fix
          /\ self'.valid \cap OClearMask = self.valid \cap OClearMask]_vars

====
